---------------------------- MODULE Spec2Model ----------------------------
(***************************************************************************)
(* State-machine model of the github-issue-operator reconciler.            *)
(*                                                                         *)
(* One worker (controller-runtime's default) takes record keys from a work *)
(* queue and runs GithubIssueReconciler.Reconcile on them.  A pass is split *)
(* at the points where it talks to the store or to GitHub, so that the     *)
(* external actor (spec edits, delete requests), the operator (token) and  *)
(* the clock interleave with it.  The store is the Kubernetes API: writes  *)
(* are compare-and-swap on the resource version, modelled by the flag      *)
(* `stale` (the stored record changed since the pass last read it).        *)
(***************************************************************************)
EXTENDS Naturals, Sequences, FiniteSets

VARIABLES
    store,      \* record key -> the GithubIssue object (present = FALSE once erased)
    secret,     \* the Secret objects in the store: the holders, each with its
                \* name, the UID of its owner and its token ("" when empty)
    issues,     \* the remote repository's issues, by number (oldest first)
    client,     \* r.GithubClient: NilClient, or the token it was built from
    queue,      \* keys waiting in the work queue
    pc,         \* position of the worker inside Reconcile ("idle" between passes)
    cur,        \* key of the pass in progress (or of the last pass)
    obj,        \* the pass's in-memory copy of the record (githubIssue)
    pre,        \* the record as the pass fetched it
    stale,      \* the stored record was written by someone else since obj was read
    token,      \* the token the pass read from the holder
    issue,      \* the *github.Issue the pass holds (NilIssue when none)
    calls,      \* the remote calls made by the pass, oldest first
    result,     \* what the last pass returned to the scheduler
    now,        \* the clock behind metav1.Now()
    editsLeft,  \* writes the external actor and the operator may still make
    faultsLeft  \* call failures and restarts that may still happen

vars == <<store, secret, issues, client, queue, pc, cur, obj, pre,
          stale, token, issue, calls, result, now, editsLeft, faultsLeft>>

---------------------------------------------------------------------------
(* Bounds of the model. *)

MaxForeign == 1     \* issues somebody else opens in the repository
MaxEdits == 1       \* external writes (spec edits, holder writes)
MaxHolderWrites == 2 \* calls of an operator who replaces a holder (delete, create)
MaxFaults == 1      \* failed calls and controller restarts
MaxNow == 2         \* last clock value
MaxListed == 2      \* issues in a listing given to CheckIssueExists
MaxPath == 3        \* characters after the prefix in a string given to ParseRepoUrl

(* Program constants. *)

ConflictDelay == 5      \* time.Second * 5
TokenDelay == 60        \* time.Minute
MaxDescription == 256   \* len(description) > 256
PerPage == 30           \* issues on the page GitHub returns when no options are given

Records == {"r1", "r2"}
Titles == {"T1", "T2"}
Descriptions == {"d1", "d2"}
Tokens == {"tokA", "tokB"}
NoSecret == "<none>"
NilClient == "<nil>"
Finalizer == "issue.core.github.io/finalizer"

---------------------------------------------------------------------------
(* Strings that the code takes apart are sequences of characters. *)

GithubPrefix ==
    <<"h","t","t","p","s",":","/","/","g","i","t","h","u","b",".","c","o","m","/">>

HasPrefix(s, p) == Len(s) >= Len(p) /\ SubSeq(s, 1, Len(p)) = p

TrimPrefix(s, p) == IF HasPrefix(s, p) THEN SubSeq(s, Len(p) + 1, Len(s)) ELSE s

\* strings.Split(s, "/"): one more part than there are separators.
RECURSIVE Split(_)
Split(s) ==
    IF \A i \in 1..Len(s) : s[i] # "/"
    THEN <<s>>
    ELSE LET k == CHOOSE i \in 1..Len(s) :
                     s[i] = "/" /\ \A j \in 1..(i - 1) : s[j] # "/"
         IN  <<SubSeq(s, 1, k - 1)>> \o Split(SubSeq(s, k + 1, Len(s)))

ParseRepoUrl(repoUrl) ==
    LET parts == Split(TrimPrefix(repoUrl, GithubPrefix))
    IN  IF Len(parts) < 2
        THEN [err |-> TRUE, owner |-> <<>>, repo |-> <<>>]
        ELSE [err |-> FALSE, owner |-> parts[1], repo |-> parts[2]]

GoodRepo == GithubPrefix \o <<"a", "/", "w">>
BadRepo == <<"n", "o", "t", "-", "a", "-", "u", "r", "l">>
RepoURLs == {GoodRepo, BadRepo}


---------------------------------------------------------------------------
(* The validating webhook (api/v1/githubissue_webhook.go).                 *)

Letters ==
    {"a","b","c","d","e","f","g","h","i","j","k","l","m",
     "n","o","p","q","r","s","t","u","v","w","x","y","z"}

UpperLetters ==
    {"A","B","C","D","E","F","G","H","I","J","K","L","M",
     "N","O","P","Q","R","S","T","U","V","W","X","Y","Z"}

Digits == {"0", "1", "2", "3", "4", "5", "6", "7", "8", "9"}

SchemeMarks == {"+", "-", "."} \cup Digits

\* strings.ToLower, character by character.
LowerOf(c) ==
    CASE c = "A" -> "a" [] c = "B" -> "b" [] c = "C" -> "c" [] c = "D" -> "d"
      [] c = "E" -> "e" [] c = "F" -> "f" [] c = "G" -> "g" [] c = "H" -> "h"
      [] c = "I" -> "i" [] c = "J" -> "j" [] c = "K" -> "k" [] c = "L" -> "l"
      [] c = "M" -> "m" [] c = "N" -> "n" [] c = "O" -> "o" [] c = "P" -> "p"
      [] c = "Q" -> "q" [] c = "R" -> "r" [] c = "S" -> "s" [] c = "T" -> "t"
      [] c = "U" -> "u" [] c = "V" -> "v" [] c = "W" -> "w" [] c = "X" -> "x"
      [] c = "Y" -> "y" [] c = "Z" -> "z" [] OTHER -> c

ToLower(s) == [i \in 1..Len(s) |-> LowerOf(s[i])]

\* strings.Index and strings.LastIndex for one character, 0 when absent.
IndexOf(s, c) ==
    IF \A i \in 1..Len(s) : s[i] # c THEN 0
    ELSE CHOOSE i \in 1..Len(s) : s[i] = c /\ \A j \in 1..(i - 1) : s[j] # c

LastIndexOf(s, c) ==
    IF \A i \in 1..Len(s) : s[i] # c THEN 0
    ELSE CHOOSE i \in 1..Len(s) : s[i] = c /\ \A j \in (i + 1)..Len(s) : s[j] # c

\* The part of s before the first c (all of s when c is absent).
Before(s, c) == IF IndexOf(s, c) = 0 THEN s ELSE SubSeq(s, 1, IndexOf(s, c) - 1)

\* From character i on.
From(s, i) == SubSeq(s, i, Len(s))

\* net/url getScheme: letters, then marks, up to the first ":".
GetScheme(s) ==
    LET stops == { i \in 1..Len(s) :
                     s[i] \notin Letters \cup UpperLetters
                                     \cup (IF i > 1 THEN SchemeMarks ELSE {}) }
        k == CHOOSE i \in stops : \A j \in stops : i <= j
    IN  IF stops = {} THEN [err |-> FALSE, scheme |-> <<>>, rest |-> s]
        ELSE IF s[k] # ":" THEN [err |-> FALSE, scheme |-> <<>>, rest |-> s]
        ELSE IF k = 1 THEN [err |-> TRUE, scheme |-> <<>>, rest |-> s]
        ELSE [err |-> FALSE, scheme |-> SubSeq(s, 1, k - 1), rest |-> From(s, k + 1)]

\* net/url validOptionalPort: nothing, or ":" and digits.
validOptionalPort(port) ==
    \/ port = <<>>
    \/ port[1] = ":" /\ \A i \in 2..Len(port) : port[i] \in Digits

\* net/url validUserinfo: the characters a user part may hold.
UserinfoMarks ==
    {"-", ".", "_", ":", "~", "!", "$", "&", "'", "(", ")", "*", "+", ",", ";",
     "=", "%", "@"}

validUserinfo(s) ==
    \A i \in 1..Len(s) :
        s[i] \in Letters \cup UpperLetters \cup Digits \cup UserinfoMarks

\* net/url shouldEscape in host mode: the characters a host may hold as
\* they are; any other character of a host is an error of unescape.
HostMarks ==
    {"!", "$", "&", "'", "(", ")", "*", "+", ",", ";", "=", ":", "[", "]", "<",
     ">", "\"", "-", "_", ".", "~"}

validHostText(s) ==
    \A i \in 1..Len(s) :
        s[i] \in Letters \cup UpperLetters \cup Digits \cup HostMarks

\* net/url parseHost: TRUE when the host is refused.
hostRefused(host) ==
    \/ /\ HasPrefix(host, <<"[">>)
       /\ \/ LastIndexOf(host, "]") = 0
          \/ ~validOptionalPort(From(host, LastIndexOf(host, "]") + 1))
    \/ /\ ~HasPrefix(host, <<"[">>)
       /\ LastIndexOf(host, ":") # 0
       /\ ~validOptionalPort(From(host, LastIndexOf(host, ":")))
    \/ ~validHostText(host)

\* net/url parseAuthority: the host is what follows the last "@", the user
\* part what precedes it.
parseAuthority(authority) ==
    LET i == LastIndexOf(authority, "@")
        host == From(authority, i + 1)
    IN  IF hostRefused(host) THEN [err |-> TRUE, host |-> <<>>]
        ELSE IF i # 0 /\ ~validUserinfo(SubSeq(authority, 1, i - 1))
        THEN [err |-> TRUE, host |-> <<>>]
        ELSE [err |-> FALSE, host |-> host]

UrlError == [err |-> TRUE, scheme |-> <<>>, host |-> <<>>, path |-> <<>>]

\* net/url Parse, for strings of printable ASCII characters without "%"
\* whose host is no IP literal in brackets: the fragment and the query are
\* cut off, then scheme, authority (user@host) and path are told apart.
\* An authority is read after "//" when a scheme was found or the rest does
\* not start with "///".
UrlParse(rawURL) ==
    LET u == Before(rawURL, "#")
        g == GetScheme(u)
        scheme == ToLower(g.scheme)
        rest == Before(g.rest, "?")
        rooted == HasPrefix(rest, <<"/">>)
        double == /\ HasPrefix(rest, <<"/", "/">>)
                  /\ (scheme # <<>> \/ ~HasPrefix(rest, <<"/", "/", "/">>))
        after == From(rest, 3)
        authority == Before(after, "/")
        parsed == parseAuthority(authority)
        path == From(after, Len(authority) + 1)
    IN  IF u = <<"*">>
        THEN [err |-> FALSE, scheme |-> <<>>, host |-> <<>>, path |-> u]
        ELSE IF g.err THEN UrlError
        ELSE IF ~rooted /\ scheme # <<>>
        THEN [err |-> FALSE, scheme |-> scheme, host |-> <<>>, path |-> <<>>]
        ELSE IF ~rooted /\ IndexOf(Before(rest, "/"), ":") # 0
        THEN UrlError
        ELSE IF double /\ parsed.err THEN UrlError
        ELSE IF double
        THEN [err |-> FALSE, scheme |-> scheme, host |-> parsed.host, path |-> path]
        ELSE [err |-> FALSE, scheme |-> scheme, host |-> <<>>, path |-> rest]

HttpsScheme == <<"h","t","t","p","s">>
GithubHost == <<"g","i","t","h","u","b",".","c","o","m">>

\* Lines 58-80: the regular expression ^/[^/]+/[^/]+$ on the path.
validateRepoURL(repoUrl) ==
    LET parsedURL == UrlParse(repoUrl)
        parts == Split(parsedURL.path)
    IN  \/ parsedURL.err
        \/ parsedURL.scheme # HttpsScheme
        \/ parsedURL.host # GithubHost
        \/ ~(Len(parts) = 3 /\ parts[1] = <<>> /\ parts[2] # <<>> /\ parts[3] # <<>>)

\* Go's len of a string counts bytes; the descriptions the webhook is given
\* are named after their size.
ByteLen(text) ==
    CASE text = "" -> 0
      [] text = "ascii256" -> 256
      [] text = "ascii257" -> 257
      [] text = "wide200" -> 400
      [] OTHER -> 2

\* Lines 83-88.
validateTitle(title) == ByteLen(title) < 1

\* Lines 90-95.
validateDescription(description) == ByteLen(description) > MaxDescription

\* Lines 97-118: the fields that were found invalid (allErrs).
validateGithubIssue(githubIssue) ==
    (IF validateTitle(githubIssue.title) THEN {"title"} ELSE {})
        \cup (IF validateDescription(githubIssue.description)
              THEN {"description"} ELSE {})
        \cup (IF validateRepoURL(githubIssue.repo) THEN {"repo"} ELSE {})

---------------------------------------------------------------------------
(* The GithubIssue object: GithubIssueSpec, GithubIssueStatus and the parts *)
(* of ObjectMeta the reconciler reads.                                     *)

EmptyStatus ==
    [conditions |-> <<>>, issueNumber |-> 0, lastUpdated |-> 0,
     tokenRequired |-> FALSE]

\* uid: ObjectMeta.UID, which the store gives an object when it is created;
\* the n-th record created under a name has uid n.
NewRecord(repo, title, description) ==
    [present |-> TRUE, uid |-> 1, repo |-> repo, title |-> title,
     description |-> description, status |-> EmptyStatus, deleting |-> FALSE,
     finalizers |-> {}]

NoRecord == [NewRecord(<<>>, "", "") EXCEPT !.present = FALSE]

(* A remote issue: the fields of github.Issue the code reads, and `by`, the *)
(* record whose pass created it ("ext" for an issue somebody else made).   *)

NilIssue ==
    [number |-> 0, title |-> "", body |-> "", state |-> "", pr |-> FALSE, by |-> ""]

ForeignIssue(n, title, state, pr) ==
    [number |-> n, title |-> title, body |-> "d0", state |-> state, pr |-> pr,
     by |-> "ext"]

RECURSIVE ForeignLists(_)
ForeignLists(n) ==
    IF n = 0 THEN {<<>>}
    ELSE LET shorter == ForeignLists(n - 1)
         IN  shorter \cup
             { Append(l, ForeignIssue(Len(l) + 1, t, s, p)) :
                 l \in {x \in shorter : Len(x) = n - 1},
                 t \in Titles, s \in {"open", "closed"}, p \in {FALSE} }

---------------------------------------------------------------------------
(* GithubClient (resources/issue_resource.go). *)

\* Issues.ListByRepo with nil options: GitHub lists the open issues, newest
\* first, and returns the first page.
ListByRepo(repo) ==
    LET open == { n \in 1..Len(repo) : repo[n].state = "open" }
        k == IF Cardinality(open) < PerPage THEN Cardinality(open) ELSE PerPage
        nth(i) == CHOOSE n \in open : Cardinality({ m \in open : m > n }) = i - 1
    IN  [i \in 1..k |-> repo[nth(i)]]

\* Index in `list` of the first issue whose title or number matches, 0 for nil.
CheckIssueExists(list, title, issueNumber) ==
    LET hits == { i \in 1..Len(list) :
                    list[i].title = title \/ list[i].number = issueNumber }
    IN  IF hits = {} THEN 0
        ELSE CHOOSE i \in hits : \A j \in hits : i <= j

\* CheckIssueExists on the repository: the issue it returns, NilIssue for nil.
FoundIssue(repo, title, issueNumber) ==
    LET list == ListByRepo(repo)
        i == CheckIssueExists(list, title, issueNumber)
    IN  IF i = 0 THEN NilIssue ELSE list[i]

\* A create request that carries the title only.
CreateIssueWithoutBody(list, title, description, r) ==
    Append(list, [number |-> Len(list) + 1, title |-> title, body |-> "",
                  state |-> "open", pr |-> FALSE, by |-> r])

\* Issues.Create: GitHub gives the issue the next number and lists it.
CreateIssue(list, title, description, r) ==
    Append(list, [number |-> Len(list) + 1, title |-> title, body |-> description,
                  state |-> "open", pr |-> FALSE, by |-> r])

\* Issues.Edit with Title and Body set.
UpdateIssue(list, i, description, title) ==
    [list EXCEPT ![i].title = title, ![i].body = description]

\* Issues.Edit with State "closed".
CloseIssue(list, i) == [list EXCEPT ![i].state = "closed"]

---------------------------------------------------------------------------
(* status.Update (status/status.go): the projected status.                 *)

IssueOpenCondition(iss, t) ==
    IF iss.state = "open"
    THEN [type |-> "IssueOpen", status |-> "True", time |-> t,
          reason |-> "IssueIsOpen", number |-> iss.number]
    ELSE [type |-> "IssueOpen", status |-> "False", time |-> t,
          reason |-> "IssueIsClosed", number |-> iss.number]

\* A second condition that follows the issue's state.
HasPRConditionOfState(iss, t) ==
    IF iss.state = "open"
    THEN [type |-> "HasPR", status |-> "True", time |-> t,
          reason |-> "PullRequestExists", number |-> 0]
    ELSE [type |-> "HasPR", status |-> "False", time |-> t,
          reason |-> "NoPullRequest", number |-> 0]

HasPRCondition(iss, t) ==
    IF iss.pr
    THEN [type |-> "HasPR", status |-> "True", time |-> t,
          reason |-> "PullRequestExists", number |-> 0]
    ELSE [type |-> "HasPR", status |-> "False", time |-> t,
          reason |-> "NoPullRequest", number |-> 0]

\* A status.Update that forgets the issue number.
StatusUpdateWithoutNumber(st, iss, t) ==
    [st EXCEPT !.conditions = <<IssueOpenCondition(iss, t), HasPRCondition(iss, t)>>,
               !.lastUpdated = t]

\* The status fields status.Update sets on githubIssue before it persists them.
StatusUpdate(st, iss, t) ==
    [st EXCEPT !.conditions = <<IssueOpenCondition(iss, t), HasPRCondition(iss, t)>>,
               !.issueNumber = iss.number,
               !.lastUpdated = t]


---------------------------------------------------------------------------
(* What a pass returns: ctrl.Result{Requeue, RequeueAfter} and the error,   *)
(* named after the call that failed.                                       *)

\* at, api and write tell where the pass returned and how its last store write
\* ("status" for Status().Update, "update" for Update) ended.
Pending ==
    [kind |-> "pending", requeue |-> FALSE, after |-> 0, err |-> "nil",
     at |-> "none", api |-> "none", write |-> "none"]
Done == [Pending EXCEPT !.kind = "returned"]
Err(e) == [Done EXCEPT !.err = e]
\* A result that asks for nothing.
RequeueNever == Done

RequeueNow == [Done EXCEPT !.requeue = TRUE]
RequeueAfter(d) == [Done EXCEPT !.after = d]
Panic == [Done EXCEPT !.kind = "panic", !.err = "nil pointer dereference"]

\* A requeue rule that forgets the retry-after timer.
RetriedWithoutTimer(res) ==
    res.kind = "panic" \/ res.err # "nil" \/ res.requeue

\* The scheduler puts the key back when the pass failed or asked for it.
Retried(res) ==
    res.kind = "panic" \/ res.err # "nil" \/ res.requeue \/ res.after > 0

---------------------------------------------------------------------------
(* The store (the Kubernetes API server, as the code's client.Client sees   *)
(* it).                                                                    *)

\* An object marked for deletion is erased once its finalizers are gone.
Settle(rec) ==
    IF rec.deleting /\ rec.finalizers = {} THEN [rec EXCEPT !.present = FALSE]
    ELSE rec

\* client.Delete
DeleteRecord(rec) == Settle([rec EXCEPT !.deleting = TRUE])

\* What a write of the pass's copy meets: the resource version is checked.
WriteOutcome(rec, isStale, fault) ==
    IF fault THEN "error"
    ELSE IF ~rec.present THEN "notfound"
    ELSE IF isStale THEN "conflict"
    ELSE "ok"

\* client.Status().Update: only the status subresource is written.
StatusWritten(rec, o) == [rec EXCEPT !.status = o.status]

\* client.Update: spec and metadata are written, the status is not.
Updated(rec, o) ==
    Settle([rec EXCEPT !.repo = o.repo, !.title = o.title,
                       !.description = o.description,
                       !.finalizers = o.finalizers])

\* A Secret object: the holder of the record `name`, with the UID its owner
\* reference names and its token.
NewSecret(name, uid, tok) == [name |-> name, owner |-> uid, token |-> tok]

\* The holders of record r among the Secret objects secs.
HoldersOf(secs, r) == { h \in secs : h.name = r }

\* c.Get of a record's holder and its token: NoSecret for not-found.
TokenIn(secs, r) ==
    IF HoldersOf(secs, r) = {} THEN NoSecret
    ELSE (CHOOSE h \in HoldersOf(secs, r) : TRUE).token

Held(r) == TokenIn(secret, r)

\* c.Create of a Secret: the store refuses an object whose name is taken.
CreateObject(secs, h) ==
    IF HoldersOf(secs, h.name) # {} THEN [ok |-> FALSE, sec |-> secs]
    ELSE [ok |-> TRUE, sec |-> secs \cup {h}]

\* A create that puts the object in the place of the one it finds.
CreateObjectReplacing(secs, h) ==
    [ok |-> TRUE, sec |-> (secs \ HoldersOf(secs, h.name)) \cup {h}]

\* The owner a holder names is gone: no record of that name, or a record
\* with another UID, is in the store.
Orphan(h) == ~(store[h.name].present /\ store[h.name].uid = h.owner)

\* The failure a step may meet, one of `points` while failures are left.
FailPoints(points) == IF faultsLeft > 0 THEN points \cup {"none"} ELSE {"none"}

---------------------------------------------------------------------------
(* A step of a pass is a function from the state it reads to the state it   *)
(* leaves: rec (the stored record), sec (the holder), the remote issues,   *)
(* the client, the pass's locals, where the pass goes next and, when it    *)
(* ends, what it returns.  api and w are the step's last store write and   *)
(* its outcome; hit tells that the step met the failure it was given.  A   *)
(* step holds one round trip to the store or to GitHub.                    *)

Same ==
    [rec |-> store[cur], sec |-> secret, issues |-> issues, client |-> client,
     obj |-> obj, token |-> token, issue |-> issue, calls |-> calls, next |-> pc,
     res |-> result, api |-> "none", w |-> "none", hit |-> FALSE]

Return(s, res) == [s EXCEPT !.next = "idle", !.res = res]

\* A failed call whose error is dropped.
FailUnreported(s, e) == [Return(s, Done) EXCEPT !.hit = TRUE]

\* A failed call: the pass returns ctrl.Result{}, err.
Fail(s, e) == [Return(s, Err(e)) EXCEPT !.hit = TRUE]

\* One remote call, as the remote sees it.
Call(s, op, number, title, body) ==
    [s EXCEPT !.calls = Append(@,
        [op |-> op, rec |-> cur, number |-> number, title |-> title, body |-> body,
         client |-> s.client, holder |-> TokenIn(s.sec, cur),
         guard |-> s.rec.present /\ Finalizer \in s.rec.finalizers])]

\* The part of Reconcile a position belongs to.
Phase(p) ==
    CASE p \in {"closeIssue", "deleteRecord", "unguard"} -> "teardown"
      [] p = "tokenStatus" -> "token"
      [] p = "holderStatus" -> "holder"
      [] p \in {"createIssue", "updateIssue"} -> "sync"
      [] OTHER -> p

---------------------------------------------------------------------------
(* status.UpdateTokenRequired and the finalizer package.                   *)

\* Sets status.tokenRequired on the pass's copy and persists the status.
UpdateTokenRequired(s, required, fault) ==
    LET o == [s.obj EXCEPT !.status.tokenRequired = required]
        w == WriteOutcome(s.rec, stale, fault)
        new == StatusWritten(s.rec, o)
    IN  IF w = "ok" THEN [s EXCEPT !.rec = new, !.obj = new, !.api = "status", !.w = w]
        ELSE [s EXCEPT !.obj = o, !.api = "status", !.w = w, !.hit = fault]

\* Adds the guard to the record if absent and persists the record.
EnsureFinalizer(s, fault) ==
    IF Finalizer \in s.obj.finalizers THEN [s EXCEPT !.w = "ok"]
    ELSE LET o == [s.obj EXCEPT !.finalizers = @ \cup {Finalizer}]
             w == WriteOutcome(s.rec, stale, fault)
             new == Updated(s.rec, o)
         IN  IF w = "ok" THEN [s EXCEPT !.rec = new, !.obj = new, !.api = "update", !.w = w]
             ELSE [s EXCEPT !.obj = o, !.api = "update", !.w = w, !.hit = fault]

\* Removes the guard if present and persists the record; the store then
\* erases a record marked for deletion.
RemoveFinalizer(s, fault) ==
    IF Finalizer \notin s.obj.finalizers THEN [s EXCEPT !.w = "ok"]
    ELSE LET o == [s.obj EXCEPT !.finalizers = @ \ {Finalizer}]
             w == WriteOutcome(s.rec, stale, fault)
             new == Updated(s.rec, o)
         IN  IF w = "ok" THEN [s EXCEPT !.rec = new, !.obj = new, !.api = "update", !.w = w]
             ELSE [s EXCEPT !.obj = o, !.api = "update", !.w = w, !.hit = fault]

---------------------------------------------------------------------------
(* The deletion branch: status.Delete (status/status.go) and lines 63-76   *)
(* of Reconcile.                                                           *)

\* A status.Delete that goes on after the parse error.
DeleteParseErrorIgnored(o) == FALSE

\* Lines 69-73: the parse error ends status.Delete before any call.
DeleteParseFailed(o) == ParseRepoUrl(o.repo).err

\* A deletion branch that takes the guard off though status.Delete failed.
DeleteFailedGuardDropped(s, e, fault) == [s EXCEPT !.next = "unguard", !.hit = fault]

\* Lines 66-69: status.Delete returned an error, and so does the pass.
DeleteFailed(s, e, fault) == [Return(s, Err(e)) EXCEPT !.hit = fault]

\* A status.Delete that closes no issue.
ShouldCloseNever(iss) == FALSE

\* status.go line 82: issue != nil && *issue.State == "open"
ShouldClose(iss) == iss # NilIssue /\ iss.state = "open"

\* status.go lines 69-79: the repo is parsed and the issue looked up.
DeleteFind(failAt) ==
    LET listed == Call(Same, "list", 0, "", "")
        found == FoundIssue(issues, obj.title, obj.status.issueNumber)
    IN  IF DeleteParseFailed(obj) THEN DeleteFailed(Same, "parse", FALSE)
        ELSE IF client = NilClient THEN Return(Same, Panic)
        ELSE IF failAt = "list" THEN DeleteFailed(listed, "list", TRUE)
        ELSE [listed EXCEPT !.issue = found,
                            !.next = IF ShouldClose(found) THEN "closeIssue"
                                     ELSE "deleteRecord"]

\* status.go lines 82-87: the issue that was found open is closed.
DeleteClose(failAt) ==
    LET closing == Call(Same, "close", issue.number, "", "")
    IN  IF failAt = "close" THEN DeleteFailed(closing, "close", TRUE)
        ELSE [closing EXCEPT !.issues = CloseIssue(@, issue.number),
                             !.next = "deleteRecord"]

\* status.go lines 89-92: client.Delete of the record.
DeleteStored(failAt) ==
    IF failAt = "delete" THEN DeleteFailed(Same, "delete", TRUE)
    ELSE IF ~store[cur].present THEN DeleteFailed(Same, "delete", FALSE)
    ELSE [Same EXCEPT !.rec = DeleteRecord(@), !.next = "unguard"]

\* Lines 71-75: the guard is taken off and the pass is done.
Unguard(failAt) ==
    LET f == RemoveFinalizer(Same, failAt = "removeFinalizer")
    IN  IF f.w # "ok" THEN Return(f, Err("removeFinalizer")) ELSE Return(f, Done)

---------------------------------------------------------------------------
(* The normal branch of GithubIssueReconciler.Reconcile.                   *)

\* A CreateSecret that replaces the holder it finds.
CreateSecretReplacing(name, githubIssue, secs) ==
    CreateObjectReplacing(secs, NewSecret(name, githubIssue.uid, ""))

\* resources.CreateSecret: c.Create of a holder named after the record,
\* with an owner reference to githubIssue (its UID) and an empty token.
CreateSecret(name, githubIssue, secs) ==
    CreateObject(secs, NewSecret(name, githubIssue.uid, ""))

\* Lines 78-83 and 100-101: the holder is read, and its token.
TokenGet(failAt) ==
    IF failAt = "secretGet" THEN Fail(Same, "secretGet")
    ELSE IF Held(cur) = NoSecret THEN [Same EXCEPT !.next = "holder"]
    ELSE [Same EXCEPT !.token = Held(cur), !.next = "tokenStatus"]

\* Lines 84-89: no holder was found; one is created.
HolderCreate(failAt) ==
    LET c == CreateSecret(cur, obj, secret)
    IN  IF failAt = "secretCreate" THEN Fail(Same, "secretCreate")
        ELSE IF ~c.ok THEN Return(Same, Err("secretCreate"))
        ELSE [Same EXCEPT !.sec = c.sec, !.next = "holderStatus"]

\* Lines 90-95: the token is asked for and the pass asks to be run again.
HolderStatus(failAt) ==
    LET absent == UpdateTokenRequired(Same, TRUE, failAt = "tokenStatus")
    IN  IF absent.w # "ok" THEN Return(absent, Err("tokenStatus"))
        ELSE Return(absent, RequeueNow)

\* A pass that takes an empty token for a token.
TokenMissingNever(tok) == FALSE

\* Line 102: !exists || len(token) == 0
TokenMissing(tok) == tok = ""

\* Lines 102-118: the status says whether a token is needed; with a token
\* the client is built from it.
TokenStatus(failAt) ==
    LET empty == UpdateTokenRequired(Same, TRUE, failAt = "tokenStatus")
        filled == UpdateTokenRequired(Same, FALSE, failAt = "tokenStatus")
    IN  IF TokenMissing(token)
        THEN IF empty.w # "ok" THEN Return(empty, Err("tokenStatus"))
             ELSE Return(empty, RequeueAfter(TokenDelay))
        ELSE IF filled.w # "ok" THEN Return(filled, Err("tokenStatus"))
             ELSE [filled EXCEPT !.client = token, !.next = "guard"]

\* A pass that goes on to Sync when the guard could not be attached.
GuardFailedCarryingOn(g) == [g EXCEPT !.next = "sync"]

\* Lines 121-122: return ctrl.Result{Requeue: true}, err.
GuardFailed(g) == Return(g, [Err("ensureFinalizer") EXCEPT !.requeue = TRUE])

\* A pass that goes to Sync without attaching the guard.
GuardStepSkipped(failAt) == [Same EXCEPT !.next = "sync"]

\* Lines 120-123: the guard.
GuardStep(failAt) ==
    LET g == EnsureFinalizer(Same, failAt = "ensureFinalizer")
    IN  IF g.w # "ok" THEN GuardFailed(g) ELSE [g EXCEPT !.next = "sync"]

\* A pass that goes on after the parse error.
SyncParseErrorIgnored(o) == FALSE

\* Lines 125-129: the parse error ends the pass before any call.
SyncParseFailed(o) == ParseRepoUrl(o.repo).err

\* Lines 125-141: the repo is parsed and the issue looked up.
SyncFind(failAt) ==
    LET listed == Call(Same, "list", 0, "", "")
        found == FoundIssue(issues, obj.title, obj.status.issueNumber)
    IN  IF SyncParseFailed(obj) THEN Return(Same, Err("parse"))
        ELSE IF failAt = "list" THEN Fail(listed, "list")
        ELSE [listed EXCEPT !.issue = found,
                            !.next = IF found = NilIssue THEN "createIssue"
                                     ELSE "updateIssue"]

\* Lines 141-147: no issue was found; one is created.
SyncCreate(failAt) ==
    LET creating == Call(Same, "create", 0, obj.title, obj.description)
        made == CreateIssue(issues, obj.title, obj.description, cur)
    IN  IF failAt = "create" THEN Fail(creating, "create")
        ELSE [creating EXCEPT !.issues = made, !.issue = made[Len(made)],
                              !.next = "status"]

\* Lines 148-156: the issue that was found is given the title and the body.
SyncUpdate(failAt) ==
    LET updating == Call(Same, "update", issue.number, obj.title, obj.description)
        edited == UpdateIssue(issues, issue.number, obj.description, obj.title)
    IN  IF failAt = "update" THEN Fail(updating, "update")
        ELSE [updating EXCEPT !.issues = edited, !.issue = edited[issue.number],
                              !.next = "status"]

\* A status write that puts the pass's whole copy in the store.
StatusStepWholeObject(failAt) ==
    LET o == [obj EXCEPT !.status = StatusUpdate(@, issue, now)]
        new == [o EXCEPT !.deleting = store[cur].deleting]
    IN  IF store[cur].present
        THEN Return([Same EXCEPT !.rec = new, !.obj = new, !.api = "status",
                                 !.w = "ok"], Done)
        ELSE Return([Same EXCEPT !.obj = o, !.api = "status", !.w = "notfound"],
                    Err("status"))

\* Lines 157-168: project and persist the status.
StatusStep(failAt) ==
    LET o == [obj EXCEPT !.status = StatusUpdate(@, issue, now)]
        w == WriteOutcome(store[cur], stale, failAt = "status")
        new == StatusWritten(store[cur], o)
        wrote == [Same EXCEPT !.obj = o, !.api = "status", !.w = w]
    IN  IF w = "ok" THEN Return([wrote EXCEPT !.rec = new, !.obj = new], Done)
        ELSE IF w = "conflict" THEN Return(wrote, RequeueAfter(ConflictDelay))
        ELSE Return([wrote EXCEPT !.hit = (failAt = "status")], Err("status"))


---------------------------------------------------------------------------
(* The worker.                                                             *)

\* A write to a record is a watch event: its key is queued.
Events(r, new) == IF new # store[r] THEN {r} ELSE {}

\* The state after a step.
Apply(n) ==
    /\ store' = [store EXCEPT ![cur] = n.rec]
    /\ secret' = n.sec
    /\ issues' = n.issues
    /\ client' = n.client
    /\ obj' = n.obj
    /\ token' = IF n.next = "idle" THEN "" ELSE n.token
    /\ issue' = n.issue
    /\ calls' = n.calls
    /\ pc' = n.next
    /\ result' = IF n.next = "idle"
                 THEN [n.res EXCEPT !.at = Phase(pc), !.api = n.api, !.write = n.w]
                 ELSE n.res
    /\ stale' = IF n.next = "idle" THEN FALSE ELSE stale
    /\ queue' = (queue \cup Events(cur, n.rec))
                    \cup (IF n.next = "idle" /\ Retried(n.res) THEN {cur} ELSE {})
    /\ faultsLeft' = IF n.hit THEN faultsLeft - 1 ELSE faultsLeft
    /\ UNCHANGED <<cur, pre, now, editsLeft>>

\* A fetch that returns the not-found error as it got it.
FetchResultNotFoundKept(failAt) == IF failAt = "get" THEN Err("get") ELSE Err("notfound")

\* Line 60: client.IgnoreNotFound(err), for a fetch that got no record.
FetchResult(failAt) == IF failAt = "get" THEN Err("get") ELSE Done

\* A pass that does not look at the deletion timestamp.
BranchDeletionUnchecked(rec) == "token"

\* Line 64: !githubIssue.GetDeletionTimestamp().IsZero()
Branch(rec) == IF rec.deleting THEN "teardown" ELSE "token"

\* Lines 52-61: a key is taken from the queue and the record is fetched.
Fetch(r) ==
    /\ pc = "idle"
    /\ r \in queue
    /\ cur' = r
    /\ calls' = <<>>
    /\ issue' = NilIssue
    /\ token' = ""
    /\ stale' = FALSE
    /\ \E failAt \in FailPoints({"get"}) :
         /\ faultsLeft' = IF failAt = "get" THEN faultsLeft - 1 ELSE faultsLeft
         /\ IF failAt = "get" \/ ~store[r].present
            THEN /\ pc' = "idle"
                 /\ result' = [FetchResult(failAt) EXCEPT !.at = "fetch"]
                 /\ queue' = IF Retried(FetchResult(failAt)) THEN queue
                              ELSE queue \ {r}
                 /\ obj' = NoRecord
                 /\ pre' = NoRecord
            ELSE /\ pc' = Branch(store[r])
                 /\ result' = Pending
                 /\ queue' = queue \ {r}
                 /\ obj' = store[r]
                 /\ pre' = store[r]
    /\ UNCHANGED <<store, secret, issues, client, now, editsLeft>>

Teardown ==
    /\ pc = "teardown"
    /\ \E failAt \in FailPoints({"list"}) : Apply(DeleteFind(failAt))

CloseRemote ==
    /\ pc = "closeIssue"
    /\ \E failAt \in FailPoints({"close"}) : Apply(DeleteClose(failAt))

DeleteFromStore ==
    /\ pc = "deleteRecord"
    /\ \E failAt \in FailPoints({"delete"}) : Apply(DeleteStored(failAt))

RemoveGuard ==
    /\ pc = "unguard"
    /\ \E failAt \in FailPoints({"removeFinalizer"}) : Apply(Unguard(failAt))

ResolveToken ==
    /\ pc = "token"
    /\ \E failAt \in FailPoints({"secretGet"}) : Apply(TokenGet(failAt))

WriteTokenStatus ==
    /\ pc = "tokenStatus"
    /\ \E failAt \in FailPoints({"tokenStatus"}) : Apply(TokenStatus(failAt))

CreateHolder ==
    /\ pc = "holder"
    /\ \E failAt \in FailPoints({"secretCreate"}) : Apply(HolderCreate(failAt))

WriteHolderStatus ==
    /\ pc = "holderStatus"
    /\ \E failAt \in FailPoints({"tokenStatus"}) : Apply(HolderStatus(failAt))

EnsureGuard ==
    /\ pc = "guard"
    /\ \E failAt \in FailPoints({"ensureFinalizer"}) : Apply(GuardStep(failAt))

Sync ==
    /\ pc = "sync"
    /\ \E failAt \in FailPoints({"list"}) : Apply(SyncFind(failAt))

CreateRemote ==
    /\ pc = "createIssue"
    /\ \E failAt \in FailPoints({"create"}) : Apply(SyncCreate(failAt))

UpdateRemote ==
    /\ pc = "updateIssue"
    /\ \E failAt \in FailPoints({"update"}) : Apply(SyncUpdate(failAt))

StatusWrite ==
    /\ pc = "status"
    /\ \E failAt \in FailPoints({"status"}) : Apply(StatusStep(failAt))

Controller ==
    \/ \E r \in Records : Fetch(r)
    \/ Teardown
    \/ CloseRemote
    \/ DeleteFromStore
    \/ RemoveGuard
    \/ ResolveToken
    \/ WriteTokenStatus
    \/ CreateHolder
    \/ WriteHolderStatus
    \/ EnsureGuard
    \/ Sync
    \/ CreateRemote
    \/ UpdateRemote
    \/ StatusWrite

---------------------------------------------------------------------------
(* Everybody else.                                                         *)

\* A write by somebody else: the key is queued, the pass's copy is stale.
Written(r, new) ==
    /\ store' = [store EXCEPT ![r] = new]
    /\ queue' = queue \cup {r}
    /\ stale' = (stale \/ (pc # "idle" /\ cur = r))

TextEdits(r) ==
    { [store[r] EXCEPT !.title = t] : t \in Titles }
        \cup { [store[r] EXCEPT !.description = d] : d \in Descriptions }

RepoEdits(r) == { [store[r] EXCEPT !.repo = u] : u \in RepoURLs }

Edit(r, choices) ==
    /\ store[r].present
    /\ editsLeft > 0
    /\ editsLeft' = editsLeft - 1
    /\ \E new \in choices :
         /\ new # store[r]
         /\ Written(r, new)
    /\ UNCHANGED <<secret, issues, client, pc, cur, obj, pre, token, issue,
                   calls, result, now, faultsLeft>>

\* The external actor edits the spec (any value: admission can be bypassed).
EditSpec(r) == Edit(r, TextEdits(r) \cup RepoEdits(r))

\* The external actor edits the title or the description.
EditText(r) == Edit(r, TextEdits(r))

\* The external actor asks for the record's deletion.
RequestDelete(r) ==
    /\ store[r].present
    /\ ~store[r].deleting
    /\ Written(r, DeleteRecord(store[r]))
    /\ UNCHANGED <<secret, issues, client, pc, cur, obj, pre, token, issue, calls,
                   result, now, editsLeft, faultsLeft>>

\* The external actor creates a record again under the name of one that was
\* erased: the store gives it a new UID, and the old record's holder may
\* still be there.
CreateRecord(r) ==
    /\ ~store[r].present
    /\ store[r].deleting
    /\ editsLeft > 0
    /\ editsLeft' = editsLeft - 1
    /\ \E u \in RepoURLs :
         Written(r, [NewRecord(u, "T1", "d1") EXCEPT !.uid = store[r].uid + 1])
    /\ UNCHANGED <<secret, issues, client, pc, cur, obj, pre, token, issue, calls,
                   result, now, faultsLeft>>

\* The garbage collector erases a holder whose owner is gone: the holder
\* names its owner by UID, so a record created again under the same name is
\* not the owner.
CollectHolder(r) ==
    /\ \E h \in HoldersOf(secret, r) :
         /\ Orphan(h)
         /\ secret' = secret \ {h}
    /\ UNCHANGED <<store, issues, client, queue, pc, cur, obj, pre, stale, token,
                   issue, calls, result, now, editsLeft, faultsLeft>>

\* The issues somebody else made.
Foreign(repo) == { n \in 1..Len(repo) : repo[n].by = "ext" }

\* Somebody else opens an issue in the repository.
ForeignCreate ==
    /\ Cardinality(Foreign(issues)) < MaxForeign
    /\ \E t \in Titles :
         issues' = Append(issues, ForeignIssue(Len(issues) + 1, t, "open", FALSE))
    /\ UNCHANGED <<store, secret, client, queue, pc, cur, obj, pre, stale, token,
                   issue, calls, result, now, editsLeft, faultsLeft>>

\* Somebody closes an issue on GitHub.
ForeignClose ==
    /\ editsLeft > 0
    /\ editsLeft' = editsLeft - 1
    /\ \E n \in 1..Len(issues) :
         /\ issues[n].state = "open"
         /\ issues' = CloseIssue(issues, n)
    /\ UNCHANGED <<store, secret, client, queue, pc, cur, obj, pre, stale, token,
                   issue, calls, result, now, faultsLeft>>

\* The operator deletes the holder (the holder is not watched).
OperatorDeleteHolder(r) ==
    /\ Held(r) # NoSecret
    /\ editsLeft > 0
    /\ editsLeft' = editsLeft - 1
    /\ secret' = secret \ HoldersOf(secret, r)
    /\ UNCHANGED <<store, issues, client, queue, pc, cur, obj, pre, stale,
                   token, issue, calls, result, now, faultsLeft>>

\* The tokens the operator's environment may hold (TEST_AUTH_TOKEN).
OperatorTokens == Tokens \cup {""}

\* The operator creates the holder of a present record, owned by that
\* record, with the token; the store refuses the create when a holder of
\* that name exists.
OperatorCreateHolder(r) ==
    /\ store[r].present
    /\ Held(r) = NoSecret
    /\ editsLeft > 0 /\ editsLeft' = editsLeft - 1
    /\ \E t \in OperatorTokens :
         secret' = CreateObject(secret, NewSecret(r, store[r].uid, t)).sec
    /\ UNCHANGED <<store, issues, client, queue, pc, cur, obj, pre,
                   stale, token, issue, calls, result, now,
                   faultsLeft>>

\* The controller process restarts: the client is gone, every record is queued.
Restart ==
    /\ pc = "idle"
    /\ faultsLeft > 0
    /\ faultsLeft' = faultsLeft - 1
    /\ client' = NilClient
    /\ queue' = {r \in Records : store[r].present}
    /\ UNCHANGED <<store, secret, issues, pc, cur, obj, pre, stale, token,
                   issue, calls, result, now, editsLeft>>

Tick ==
    /\ pc = "idle"
    /\ now < MaxNow
    /\ now' = now + 1
    /\ UNCHANGED <<store, secret, issues, client, queue, pc, cur, obj, pre,
                   stale, token, issue, calls, result, editsLeft, faultsLeft>>

Environment ==
    \/ \E r \in Records : CreateRecord(r)
    \/ \E r \in Records : EditSpec(r)
    \/ \E r \in Records : RequestDelete(r)
    \/ \E r \in Records : CollectHolder(r)
    \/ \E r \in Records : OperatorDeleteHolder(r)
    \/ \E r \in Records : OperatorCreateHolder(r)
    \/ ForeignCreate
    \/ ForeignClose
    \/ Restart
    \/ Tick

---------------------------------------------------------------------------

\* One record, created by the external actor, in a repository that may
\* already hold issues; the operator may have stored the token already.
Init ==
    /\ \E u \in RepoURLs :
         store = [r \in Records |->
                    IF r = "r1" THEN NewRecord(u, "T1", "d1") ELSE NoRecord]
    /\ secret \in {{}, {NewSecret("r1", 1, "tokA")}}
    /\ issues \in ForeignLists(MaxForeign)
    /\ client = NilClient
    /\ queue = {"r1"}
    /\ pc = "idle"
    /\ cur = "r1"
    /\ obj = NoRecord
    /\ pre = NoRecord
    /\ stale = FALSE
    /\ token = ""
    /\ issue = NilIssue
    /\ calls = <<>>
    /\ result = Pending
    /\ now = 1
    /\ editsLeft = MaxEdits
    /\ faultsLeft = MaxFaults

Next == Controller \/ Environment

Spec == Init /\ [][Next]_vars

---------------------------------------------------------------------------
(* The same worker under fair scheduling, with the store and the remote     *)
(* available (no call fails, no restart) and a record whose repo parses.   *)
(* Its holder carries a token, or is missing: the operator may create it   *)
(* before the worker does.  The external actor edits title and description *)
(* finitely often and may ask for deletion; somebody else may open an      *)
(* issue in the repository.  Nobody takes the holder of a record away.     *)

InitFair ==
    /\ store = [r \in Records |->
                  IF r = "r1" THEN NewRecord(GoodRepo, "T1", "d1") ELSE NoRecord]
    /\ secret \in {{}, {NewSecret("r1", 1, "tokA")}}
    /\ issues \in ForeignLists(MaxForeign)
    /\ client = NilClient
    /\ queue = {"r1"}
    /\ pc = "idle"
    /\ cur = "r1"
    /\ obj = NoRecord
    /\ pre = NoRecord
    /\ stale = FALSE
    /\ token = ""
    /\ issue = NilIssue
    /\ calls = <<>>
    /\ result = Pending
    /\ now = 1
    /\ editsLeft = MaxEdits
    /\ faultsLeft = 0

NextFair ==
    \/ Controller
    \/ \E r \in Records : CollectHolder(r)
    \/ \E r \in Records : EditText(r)
    \/ \E r \in Records : RequestDelete(r)
    \/ \E r \in Records : OperatorCreateHolder(r)
    \/ ForeignCreate
    \/ Tick

\* The work queue hands every queued key to the worker, and a pass runs on.
FairSpec == InitFair /\ [][NextFair]_vars /\ WF_vars(Controller)

---------------------------------------------------------------------------
(* The same worker under fair scheduling, for a record whose holder is      *)
(* missing or carries an empty token: the operator may replace the holder  *)
(* by one with a token (a delete and a create), the external actor may ask *)
(* for deletion, nobody edits the record's spec and no call fails.  The    *)
(* holder is not watched (lines 171-176): a write to it queues nothing.    *)

InitWait ==
    /\ store = [r \in Records |->
                  IF r = "r1" THEN NewRecord(GoodRepo, "T1", "d1") ELSE NoRecord]
    /\ secret \in {{}, {NewSecret("r1", 1, "")}}
    /\ issues \in ForeignLists(MaxForeign)
    /\ client = NilClient
    /\ queue = {"r1"}
    /\ pc = "idle"
    /\ cur = "r1"
    /\ obj = NoRecord
    /\ pre = NoRecord
    /\ stale = FALSE
    /\ token = ""
    /\ issue = NilIssue
    /\ calls = <<>>
    /\ result = Pending
    /\ now = 1
    /\ editsLeft = MaxHolderWrites
    /\ faultsLeft = 0

NextWait ==
    \/ Controller
    \/ \E r \in Records : CollectHolder(r)
    \/ \E r \in Records : OperatorDeleteHolder(r)
    \/ \E r \in Records : OperatorCreateHolder(r)
    \/ \E r \in Records : RequestDelete(r)
    \/ Tick

WaitSpec == InitWait /\ [][NextWait]_vars /\ WF_vars(Controller)

---------------------------------------------------------------------------
(* The same worker with two records that point at the same repository,     *)
(* with equal or different titles; the second record's holder may be       *)
(* missing.  No call fails and nobody edits a record's spec; the operator  *)
(* may delete or create a holder; the external actor may ask for deletion. *)

InitPair ==
    /\ \E t \in Titles :
         store = [r \in Records |->
                    IF r = "r1" THEN NewRecord(GoodRepo, "T1", "d1")
                    ELSE NewRecord(GoodRepo, t, "d2")]
    /\ secret \in { {NewSecret("r1", 1, "tokA")} \cup x :
                      x \in {{}, {NewSecret("r2", 1, "tokB")}} }
    /\ issues = <<>>
    /\ client = NilClient
    /\ queue = Records
    /\ pc = "idle"
    /\ cur = "r1"
    /\ obj = NoRecord
    /\ pre = NoRecord
    /\ stale = FALSE
    /\ token = ""
    /\ issue = NilIssue
    /\ calls = <<>>
    /\ result = Pending
    /\ now = 1
    /\ editsLeft = MaxEdits
    /\ faultsLeft = 0

NextPair ==
    \/ Controller
    \/ \E r \in Records : CollectHolder(r)
    \/ \E r \in Records : OperatorDeleteHolder(r)
    \/ \E r \in Records : OperatorCreateHolder(r)
    \/ \E r \in Records : RequestDelete(r)
    \/ Tick

PairSpec == InitPair /\ [][NextPair]_vars

---------------------------------------------------------------------------
(* The same worker under fair scheduling, for a record of any repo string  *)
(* (admission can be bypassed) whose deletion may be asked for at any      *)
(* time.  No call fails, the controller does not restart and nobody edits  *)
(* the record's spec; the operator may delete or create a holder.          *)

InitRemoval ==
    /\ \E u \in RepoURLs :
         store = [r \in Records |->
                    IF r = "r1" THEN NewRecord(u, "T1", "d1") ELSE NoRecord]
    /\ secret \in {{}, {NewSecret("r1", 1, "tokA")}}
    /\ issues \in ForeignLists(MaxForeign)
    /\ client = NilClient
    /\ queue = {"r1"}
    /\ pc = "idle"
    /\ cur = "r1"
    /\ obj = NoRecord
    /\ pre = NoRecord
    /\ stale = FALSE
    /\ token = ""
    /\ issue = NilIssue
    /\ calls = <<>>
    /\ result = Pending
    /\ now = 1
    /\ editsLeft = MaxEdits
    /\ faultsLeft = 0

NextRemoval ==
    \/ Controller
    \/ \E r \in Records : CollectHolder(r)
    \/ \E r \in Records : OperatorDeleteHolder(r)
    \/ \E r \in Records : OperatorCreateHolder(r)
    \/ \E r \in Records : RequestDelete(r)
    \/ Tick

RemovalSpec == InitRemoval /\ [][NextRemoval]_vars /\ WF_vars(Controller)


---------------------------------------------------------------------------
(* The same worker for a record of any repo string whose holder the        *)
(* operator replaces: a delete and a create, at any point of a pass.       *)
(* Calls may fail and the controller may restart; nobody edits the         *)
(* record's spec; the external actor may ask for deletion.                 *)

InitHolder ==
    /\ \E u \in RepoURLs :
         store = [r \in Records |->
                    IF r = "r1" THEN NewRecord(u, "T1", "d1") ELSE NoRecord]
    /\ secret \in {{}, {NewSecret("r1", 1, "tokA")}}
    /\ issues \in ForeignLists(MaxForeign)
    /\ client = NilClient
    /\ queue = {"r1"}
    /\ pc = "idle"
    /\ cur = "r1"
    /\ obj = NoRecord
    /\ pre = NoRecord
    /\ stale = FALSE
    /\ token = ""
    /\ issue = NilIssue
    /\ calls = <<>>
    /\ result = Pending
    /\ now = 1
    /\ editsLeft = MaxHolderWrites
    /\ faultsLeft = MaxFaults

NextHolder ==
    \/ Controller
    \/ \E r \in Records : CollectHolder(r)
    \/ \E r \in Records : OperatorDeleteHolder(r)
    \/ \E r \in Records : OperatorCreateHolder(r)
    \/ \E r \in Records : RequestDelete(r)
    \/ Restart
    \/ Tick

HolderSpec == InitHolder /\ [][NextHolder]_vars

---------------------------------------------------------------------------
(* Normal passes in a row over a record that has been through a pass: it   *)
(* carries the guard, its holder a token and its status the number of an   *)
(* issue of the repository, open or closed.  The first pass is owed to the *)
(* record's last write, the next to the status write of the first (a watch *)
(* event) or to the external actor, who may give the record another title  *)
(* or description at any time.  A call may fail.                           *)

InitRuns ==
    /\ \E t \in Titles, d \in Descriptions, n \in 1..MaxListed :
         store = [r \in Records |->
                    IF r = "r1"
                    THEN [NewRecord(GoodRepo, t, d) EXCEPT
                              !.status.issueNumber = n,
                              !.finalizers = {Finalizer}]
                    ELSE NoRecord]
    /\ secret = {NewSecret("r1", 1, "tokA")}
    /\ issues \in { l \in ForeignLists(MaxListed) : Len(l) = MaxListed }
    /\ client = NilClient
    /\ queue = {"r1"}
    /\ pc = "idle"
    /\ cur = "r1"
    /\ obj = NoRecord
    /\ pre = NoRecord
    /\ stale = FALSE
    /\ token = ""
    /\ issue = NilIssue
    /\ calls = <<>>
    /\ result = Pending
    /\ now = 1
    /\ editsLeft = MaxEdits
    /\ faultsLeft = MaxFaults

NextRuns ==
    \/ \E r \in Records : Fetch(r)
    \/ ResolveToken
    \/ WriteTokenStatus
    \/ EnsureGuard
    \/ Sync
    \/ CreateRemote
    \/ UpdateRemote
    \/ StatusWrite
    \/ \E r \in Records : EditText(r)

RunsSpec == InitRuns /\ [][NextRuns]_vars

---------------------------------------------------------------------------
(* The functions of the program on their own: each behaviour starts with    *)
(* the inputs of one call and makes that call.                             *)

\* Everything a single call does not read.
Quiet ==
    /\ secret = {}
    /\ client = NilClient
    /\ queue = {}
    /\ cur = "r1"
    /\ stale = FALSE
    /\ calls = <<>>
    /\ result = Pending
    /\ editsLeft = 0
    /\ faultsLeft = 0

\* CheckIssueExists on a repository of open and closed issues.
FindInit ==
    /\ Quiet
    /\ pc = "find"
    /\ issues \in ForeignLists(MaxListed)
    /\ \E t \in Titles, n \in 0..MaxListed :
         obj = [NewRecord(GoodRepo, t, "d1") EXCEPT !.status.issueNumber = n]
    /\ store = [r \in Records |-> NoRecord]
    /\ pre = NoRecord
    /\ token = ""
    /\ issue = NilIssue
    /\ now = 1

\* issue_resource.go lines 28-42, on the listing it got.
FindIssue ==
    /\ pc = "find"
    /\ pc' = "found"
    /\ issue' = FoundIssue(issues, obj.title, obj.status.issueNumber)
    /\ UNCHANGED <<store, secret, issues, client, queue, cur, obj, pre, stale,
                   token, calls, result, now, editsLeft, faultsLeft>>

\* The objects the webhook is given: a scheme, an authority and a path, or
\* something that is no URL at all.
SubmittedSchemes ==
    { HttpsScheme \o <<":", "/", "/">>, <<"h","t","t","p",":","/","/">> }

SubmittedAuthorities ==
    { GithubHost, <<"u", "@">> \o GithubHost, <<"[", "@">> \o GithubHost,
      <<"a", " ", "b", "@">> \o GithubHost, GithubHost \o <<":", "4", "4", "3">>,
      GithubHost \o <<":", "x">>, <<"g","i","t","l","a","b",".","c","o","m">> }

SubmittedPaths ==
    { <<"/","a","/","w">>, <<"/","a">>, <<"/","a","/","w","/","x">>,
      <<"/","a","/","w","/">>, <<"/","a","/","w","?","x">>, <<>> }

\* Strings without a scheme, and one with the scheme in upper case.
SubmittedOthers ==
    { BadRepo, <<"/", "/", "/", "a", "/", "w">>,
      <<"/", "/">> \o GithubHost \o <<"/", "a", "/", "w">>,
      <<"H","T","T","P","S",":","/","/">> \o GithubHost \o <<"/", "a", "/", "w">> }

SubmittedRepos ==
    { sch \o aut \o pth : sch \in SubmittedSchemes, aut \in SubmittedAuthorities,
                          pth \in SubmittedPaths } \cup SubmittedOthers

SubmittedTitles == {"", "T1"}

SubmittedDescriptions == {"", "d1", "ascii256", "ascii257", "wide200"}

AdmitInit ==
    /\ Quiet
    /\ pc \in {"create", "update", "delete"}
    /\ store = [r \in Records |->
                  IF r = "r1" /\ pc # "create"
                  THEN NewRecord(GoodRepo, "T1", "d1") ELSE NoRecord]
    /\ pre = store["r1"]
    /\ obj \in { NewRecord(u, t, d) : u \in SubmittedRepos, t \in SubmittedTitles,
                                      d \in SubmittedDescriptions }
    /\ issues = <<>>
    /\ token = ""
    /\ issue = NilIssue
    /\ now = 1

\* What the store does with the webhook's answer: a write that was refused
\* is not made.
Admit(op, allErrs, new) ==
    /\ pc' = "answered"
    /\ result' = [(IF allErrs = {} THEN Done ELSE Err("invalid")) EXCEPT !.at = op]
    /\ store' = IF allErrs = {} THEN [store EXCEPT ![cur] = new] ELSE store
    /\ UNCHANGED <<secret, issues, client, queue, cur, obj, pre, stale, token,
                   issue, calls, now, editsLeft, faultsLeft>>

\* Lines 121-129.
ValidateCreate ==
    /\ pc = "create"
    /\ Admit("create", validateGithubIssue(obj), obj)

\* Lines 132-140.
ValidateUpdate ==
    /\ pc = "update"
    /\ Admit("update", validateGithubIssue(obj),
             [store[cur] EXCEPT !.repo = obj.repo, !.title = obj.title,
                                !.description = obj.description])

\* Lines 143-147.
ValidateDelete ==
    /\ pc = "delete"
    /\ Admit("delete", {}, DeleteRecord(store[cur]))

\* The strings ParseRepoUrl is given: owner and repo names and separators,
\* with and without the prefix.
PathChars == {"a", "w", "/"}

RECURSIVE Paths(_)
Paths(n) ==
    IF n = 0 THEN {<<>>}
    ELSE LET shorter == Paths(n - 1)
         IN  shorter \cup
             { Append(x, c) : x \in {y \in shorter : Len(y) = n - 1}, c \in PathChars }

ParseInit ==
    /\ Quiet
    /\ pc = "parse"
    /\ \E prefix \in {<<>>, GithubPrefix}, path \in Paths(MaxPath) :
         obj = NewRecord(prefix \o path, "T1", "d1")
    /\ store = [r \in Records |-> NoRecord]
    /\ pre = NoRecord
    /\ issues = <<>>
    /\ token = ""
    /\ issue = NilIssue
    /\ now = 1

\* utils.ParseRepoUrl on spec.repo; the call and what it returned are logged.
ParseRepo ==
    /\ pc = "parse"
    /\ pc' = "parsed"
    /\ LET p == ParseRepoUrl(obj.repo)
       IN  calls' = <<[op |-> "parse", err |-> p.err, owner |-> p.owner,
                       repo |-> p.repo]>>
    /\ UNCHANGED <<store, secret, issues, client, queue, cur, obj, pre, stale,
                   token, issue, result, now, editsLeft, faultsLeft>>

\* utils.ParseRepoUrl on the repo of a record the webhook let in, as the
\* next pass over the record calls it (line 125, status.go:69).
ParseAdmitted ==
    /\ pc = "answered"
    /\ result.at \in {"create", "update"} /\ result.err = "nil"
    /\ pc' = "resolved"
    /\ LET p == ParseRepoUrl(store[cur].repo)
       IN  calls' = <<[op |-> "parse", err |-> p.err, owner |-> p.owner,
                       repo |-> p.repo]>>
    /\ UNCHANGED <<store, secret, issues, client, queue, cur, obj, pre, stale,
                   token, issue, result, now, editsLeft, faultsLeft>>

\* The issues status.Update is given and the statuses it finds stored.
RemoteIssues ==
    { ForeignIssue(n, "T1", st, p) :
        n \in 1..MaxListed, st \in {"open", "closed"}, p \in BOOLEAN }

StoredConditions ==
    {<<>>} \cup UNION { { <<IssueOpenCondition(i, 1), HasPRCondition(i, 1)>>,
                          <<HasPRCondition(i, 1), IssueOpenCondition(i, 1),
                            HasPRCondition(i, 1)>> } : i \in RemoteIssues }

StoredStatuses ==
    { [EmptyStatus EXCEPT !.conditions = c, !.issueNumber = n, !.lastUpdated = n] :
        n \in {0, 1}, c \in StoredConditions }

ProjectInit ==
    /\ Quiet
    /\ pc = "project"
    /\ \E st \in StoredStatuses :
         obj = [NewRecord(GoodRepo, "T1", "d1") EXCEPT !.status = st]
    /\ store = [r \in Records |-> IF r = "r1" THEN obj ELSE NoRecord]
    /\ pre = obj
    /\ token = ""
    /\ issue \in RemoteIssues
    /\ issues = <<>>
    /\ now = MaxNow

\* status.Update on the issue it is given, as the pass calls it.
ProjectStatus ==
    /\ pc = "project"
    /\ Apply(StatusStep("none"))

FunctionInit == FindInit \/ AdmitInit \/ ParseInit \/ ProjectInit

FunctionNext ==
    \/ FindIssue
    \/ ValidateCreate
    \/ ValidateUpdate
    \/ ValidateDelete
    \/ ParseRepo
    \/ ParseAdmitted
    \/ ProjectStatus

FunctionSpec == FunctionInit /\ [][FunctionNext]_vars

---------------------------------------------------------------------------
(* Vocabulary of the properties.                                           *)

Mutating == {"create", "update", "close"}

\* The remote issue with number n (GitHub numbers the issues 1, 2, ...).
HasIssue(n) == n \in 1..Len(issues)
IssueByNumber(n) == issues[n]

Erased(r) == ~store[r].present /\ store[r].deleting

\* The issues created by passes over record r.
CreatedFor(r) == { i \in 1..Len(issues) : issues[i].by = r }

\* The pass in progress, or the last one, is a normal pass over a record
\* whose repo does not parse.
MalformedNormalPass ==
    pre.present /\ ~pre.deleting /\ ParseRepoUrl(pre.repo).err

PassEnded == pc = "idle" /\ result.kind # "pending"

\* GithubIssueSpec: the fields of a record the external actor gives it.
SpecOf(rec) == <<rec.repo, rec.title, rec.description>>

---------------------------------------------------------------------------
(* C1. Teardown ordering (P3): a record whose status holds the number of a  *)
(* remote issue is not erased from the store while that issue is open,     *)
(* whatever else the repository's issue list holds.                        *)
C1_TeardownOrdering ==
    \A r \in Records :
        (Erased(r) /\ HasIssue(store[r].status.issueNumber))
            => IssueByNumber(store[r].status.issueNumber).state = "closed"

(* C2. Create-once (P2): over any sequence of passes, failed or conflicting *)
(* status writes and title edits included, at most one issue is created    *)
(* for a record.                                                           *)
C2_CreateOnce == \A r \in Records : Cardinality(CreatedFor(r)) <= 1

(* C3. Token gating (P4): no create, update or close call is made for a     *)
(* record while its holder is absent or holds an empty token.              *)
C3_TokenGating ==
    \A k \in 1..Len(calls) :
        calls[k].op \in Mutating => calls[k].holder \notin {NoSecret, ""}

(* C4. Guard before remote: every create, update or close call made for a   *)
(* record is made while the record carries the finalization guard.         *)
C4_GuardBeforeRemote ==
    \A k \in 1..Len(calls) : calls[k].op \in Mutating => calls[k].guard

C4_Witness ==
    \E k \in 1..Len(calls) : calls[k].op = "create" /\ calls[k].guard

(* C5. Remote identity is stable: once a non-zero issue number is persisted *)
(* in a record's status, every later persisted status of that record holds *)
(* the same number.                                                        *)
C5_StableIdentity ==
    [][\A r \in Records :
          (store[r].present /\ store[r].status.issueNumber # 0)
              => store'[r].status.issueNumber = store[r].status.issueNumber]_vars

(* C6. Conflict is never an error (P5): a pass whose status write, the      *)
(* tokenRequired write or the projected-status write, met a write conflict *)
(* returns retry-after 5s and no error.                                    *)
C6_ConflictNeverError ==
    (PassEnded /\ result.api = "status" /\ result.write = "conflict")
        => (result.kind = "returned" /\ result.err = "nil"
            /\ result.after = ConflictDelay)

(* C7, as claimed. Conflict self-heal (P5): after a status write of a pass  *)
(* (the tokenRequired write or the projected-status write) met a conflict, *)
(* under fair scheduling, an available remote and finitely many edits, a   *)
(* later pass persists the status and it is the projection of the issue    *)
(* that pass read from the remote: the issue's number, IssueOpen and HasPR. *)
ConflictMet(r) ==
    /\ PassEnded /\ cur = r
    /\ result.api = "status" /\ result.write = "conflict"

Healed(r) ==
    /\ PassEnded /\ cur = r
    /\ result.at = "status" /\ result.write = "ok"
    /\ HasIssue(issue.number) /\ IssueByNumber(issue.number) = issue
    /\ store[r].status.issueNumber = issue.number
    /\ Len(store[r].status.conditions) = 2
    /\ store[r].status.conditions[1].type = "IssueOpen"
    /\ (store[r].status.conditions[1].status = "True") = (issue.state = "open")
    /\ store[r].status.conditions[2].type = "HasPR"
    /\ (store[r].status.conditions[2].status = "True") = issue.pr

C7_ConflictSelfHeal == \A r \in Records : ConflictMet(r) ~> Healed(r)

(* C7, amended. The same for a record whose holder carries a token, unless *)
(* the record's deletion is asked for: a record that is being deleted gets *)
(* no status any more (the deletion branch writes none), and a record      *)
(* without a token never reads the remote.                                 *)
C7_ConflictSelfHealWhileKept ==
    \A r \in Records :
        (ConflictMet(r) /\ Held(r) \in Tokens) ~> (Healed(r) \/ store[r].deleting)

C7_Witness ==
    /\ ConflictMet(cur)
    /\ Held(cur) \in Tokens
    /\ store[cur].present /\ ~store[cur].deleting
    /\ SpecOf(store[cur]) # SpecOf(pre)

(* C8. Malformed repo ref is not retried: a normal pass that reaches Sync   *)
(* with a repo that does not parse returns a directive that schedules no   *)
(* retry.                                                                  *)
C8_MalformedNotRetried ==
    (PassEnded /\ result.at = "sync" /\ MalformedNormalPass) => ~Retried(result)

(* C9. No remote call on a malformed repo ref: a pass, normal or teardown,  *)
(* over a record whose repo does not parse makes no call to the remote     *)
(* tracker, not even the listing.                                          *)
C9_NoRemoteCallOnMalformed ==
    (pre.present /\ ParseRepoUrl(pre.repo).err) => calls = <<>>

C9_Witness ==
    /\ PassEnded
    /\ result.at = "teardown"
    /\ pre.present /\ ParseRepoUrl(pre.repo).err
    /\ calls = <<>>

(* C10, as claimed. A normal pass that ends on a repo that does not parse   *)
(* leaves the record in the store with the status it had before the pass.  *)
C10_StatusUntouched ==
    (PassEnded /\ result.at = "sync" /\ MalformedNormalPass /\ ~store[cur].deleting)
        => (store[cur].present /\ store[cur].status = pre.status)

(* C10, amended. A normal pass over a record whose repo does not parse      *)
(* leaves the record in the store with the conditions, issue number and    *)
(* lastUpdated it had before the pass; tokenRequired is rewritten by the   *)
(* token step, and is false when the pass ends on the parse error.         *)
C10_ProjectionUntouched ==
    (MalformedNormalPass /\ ~store[cur].deleting)
        => /\ store[cur].present
           /\ store[cur].status.conditions = pre.status.conditions
           /\ store[cur].status.issueNumber = pre.status.issueNumber
           /\ store[cur].status.lastUpdated = pre.status.lastUpdated
           /\ (PassEnded /\ result.at = "sync")
                  => ~store[cur].status.tokenRequired

C10_Witness ==
    /\ PassEnded
    /\ result.at = "sync"
    /\ MalformedNormalPass
    /\ store[cur].present
    /\ store[cur].status.tokenRequired # pre.status.tokenRequired

(* C11. Benign absence: a pass over a key whose record is not in the store  *)
(* returns done with no error and no retry, makes no remote call and       *)
(* leaves the store, the holders and the remote as they were; a fetch that *)
(* fails otherwise returns the error.                                      *)
AbsentPass ==
    /\ pc = "idle" /\ pc' = "idle"
    /\ faultsLeft' = faultsLeft /\ now' = now /\ editsLeft' = editsLeft
    /\ cur' \in queue /\ ~store[cur'].present
    /\ result'.at = "fetch"
    /\ (cur' \notin queue' \/ result' # result)

FailedFetch ==
    /\ pc = "idle" /\ pc' = "idle"
    /\ faultsLeft' < faultsLeft
    /\ result' # result

C11_BenignAbsence ==
    [][/\ AbsentPass =>
            /\ result'.kind = "returned" /\ result'.err = "nil"
            /\ ~Retried(result')
            /\ calls' = <<>>
            /\ store' = store /\ secret' = secret /\ issues' = issues
       /\ FailedFetch =>
            /\ result'.at = "fetch" /\ result'.err = "get"
            /\ calls' = <<>>
            /\ store' = store /\ secret' = secret /\ issues' = issues]_vars

C11_Witness ==
    /\ PassEnded
    /\ result.at = "fetch" /\ result.err = "nil"
    /\ Erased(cur)
    /\ cur \notin queue

(* C12. Scenario A, token supplied: a normal pass that reaches Sync (token  *)
(* read, repo parsed) and finds no issue makes exactly one create call,    *)
(* with the record's title and description, and the remote then holds the  *)
(* issue; when its status write succeeds the stored status has             *)
(* tokenRequired false, the created issue's number, and IssueOpen true iff *)
(* the created issue is open.                                              *)
Creates(log) == { k \in 1..Len(log) : log[k].op = "create" }

SyncListed == pc = "sync" /\ pc' \in {"createIssue", "updateIssue"}

SyncFoundNone ==
    /\ SyncListed
    /\ FoundIssue(issues, obj.title, obj.status.issueNumber) = NilIssue

IssueCreated == pc = "createIssue" /\ pc' = "status"

CreatedStatusPersisted ==
    /\ pc = "status" /\ pc' = "idle"
    /\ Creates(calls) # {}
    /\ result'.write = "ok"

C12_ScenarioA ==
    [][/\ SyncFoundNone => (pc' = "createIssue" /\ Creates(calls') = {})
       /\ IssueCreated =>
            /\ Creates(calls') = {Len(calls')}
            /\ calls'[Len(calls')].title = obj.title
            /\ calls'[Len(calls')].body = obj.description
            /\ Len(issues') = Len(issues) + 1
            /\ issues'[Len(issues')].title = obj.title
            /\ issues'[Len(issues')].body = obj.description
            /\ issue' = issues'[Len(issues')]
       /\ CreatedStatusPersisted =>
            /\ Cardinality(Creates(calls')) = 1
            /\ HasIssue(issue.number) /\ IssueByNumber(issue.number).by = cur
            /\ ~store'[cur].status.tokenRequired
            /\ store'[cur].status.issueNumber = issue.number
            /\ store'[cur].status.conditions[1].type = "IssueOpen"
            /\ (store'[cur].status.conditions[1].status = "True")
                   = (issue.state = "open")]_vars

C12_Witness ==
    /\ PassEnded
    /\ result.at = "status" /\ result.write = "ok"
    /\ Len(calls) = 2 /\ calls[2].op = "create"
    /\ calls[2].title = pre.title /\ calls[2].body = pre.description
    /\ store[cur].status.issueNumber = issue.number
    /\ ~store[cur].status.tokenRequired

(* C13. Scenario B, spec edit after creation: a pass over a record whose    *)
(* status holds the number N > 0 of an existing remote issue makes no      *)
(* create call, updates issue N with the record's title and description,   *)
(* and persists a status that still holds N.                               *)
SyncKnownIssue ==
    /\ SyncListed
    /\ HasIssue(obj.status.issueNumber)

KnownIssueUpdated ==
    /\ pc = "updateIssue" /\ pc' = "status"
    /\ HasIssue(obj.status.issueNumber)

KnownStatusPersisted ==
    /\ pc = "status" /\ pc' = "idle"
    /\ HasIssue(pre.status.issueNumber)
    /\ result'.write = "ok"

C13_ScenarioB ==
    [][/\ SyncKnownIssue =>
            /\ pc' = "updateIssue"
            /\ issue'.number = obj.status.issueNumber
       /\ KnownIssueUpdated =>
            /\ Creates(calls') = {}
            /\ calls'[Len(calls')].op = "update"
            /\ calls'[Len(calls')].number = obj.status.issueNumber
            /\ calls'[Len(calls')].title = obj.title
            /\ calls'[Len(calls')].body = obj.description
            /\ issues'[obj.status.issueNumber].title = obj.title
            /\ issues'[obj.status.issueNumber].body = obj.description
       /\ KnownStatusPersisted =>
            store'[cur].status.issueNumber = pre.status.issueNumber]_vars

(* C14. FindIssue tie-break: when the listing holds an issue whose number   *)
(* is the known number (> 0), CheckIssueExists returns that issue, also    *)
(* when an issue with the given title is listed before it; with known      *)
(* number 0 it returns the first issue with the given title, or none.      *)
Listed == ListByRepo(issues)

TitleHits == { i \in 1..Len(Listed) : Listed[i].title = obj.title }

C14_NumberFirst ==
    pc = "found" =>
        LET n == obj.status.issueNumber
        IN  /\ (n > 0 /\ \E i \in 1..Len(Listed) : Listed[i].number = n)
                  => issue.number = n
            /\ n = 0 =>
                  IF TitleHits = {} THEN issue = NilIssue
                  ELSE \E i \in TitleHits :
                         /\ issue = Listed[i]
                         /\ \A j \in TitleHits : i <= j

(* C15. Scenario C, teardown completes: a record marked for deletion that   *)
(* carries the guard, whose repo parses and whose status holds the number  *)
(* of an open remote issue is, under fair scheduling and with the remote   *)
(* and the store available, eventually erased with the guard removed and   *)
(* that issue closed.                                                      *)
TeardownDue(r) ==
    /\ store[r].present /\ store[r].deleting
    /\ Finalizer \in store[r].finalizers
    /\ ~ParseRepoUrl(store[r].repo).err
    /\ HasIssue(store[r].status.issueNumber)
    /\ IssueByNumber(store[r].status.issueNumber).state = "open"

TornDown(r) ==
    /\ Erased(r)
    /\ Finalizer \notin store[r].finalizers
    /\ HasIssue(store[r].status.issueNumber)
    /\ IssueByNumber(store[r].status.issueNumber).state = "closed"

C15_TeardownCompletes == \A r \in Records : TeardownDue(r) ~> TornDown(r)

(* C16. The controller never overwrites an operator's token: a step of the  *)
(* worker changes the Secret objects only by creating the holder of the    *)
(* record of its pass, with an empty token, when that record has none; a   *)
(* holder with a non-empty token is never replaced or cleared by a step of *)
(* the worker, and leaves the store only when the operator deletes it or   *)
(* when the garbage collector erases it, its owner being gone; and there   *)
(* is never more than one holder per record.                               *)
WorkerStep == pc' # pc

EmptyHolderAdded ==
    /\ pc = "holder"
    /\ HoldersOf(secret, cur) = {}
    /\ \E h \in secret' :
         /\ h.name = cur /\ h.token = ""
         /\ secret' = secret \cup {h}

C16_TokenKept ==
    [][/\ WorkerStep => (secret' = secret \/ EmptyHolderAdded)
       /\ \A h \in secret :
             (h.token # "" /\ h \notin secret')
                 => /\ ~WorkerStep
                    /\ secret' = secret \ {h}
                    /\ editsLeft' < editsLeft \/ Orphan(h)
       /\ \A r \in Records : Cardinality(HoldersOf(secret', r)) <= 1]_vars

C16_Witness ==
    /\ PassEnded
    /\ result.at = "holder" /\ result.err = "secretCreate"
    /\ faultsLeft = MaxFaults
    /\ store[cur].present
    /\ Held(cur) \in Tokens
    /\ Cardinality(HoldersOf(secret, cur)) = 1

(* C17. Admission validation: a create or an update is refused if and only  *)
(* if the title is empty, or the description is longer than 256            *)
(* characters, or the repo is not https://github.com/{owner}/{repo}; a     *)
(* refused update leaves the stored spec as it was; a delete is never      *)
(* refused.                                                                *)
OfRepoForm(repoUrl) ==
    /\ HasPrefix(repoUrl, GithubPrefix)
    /\ LET parts == Split(TrimPrefix(repoUrl, GithubPrefix))
       IN  Len(parts) = 2 /\ parts[1] # <<>> /\ parts[2] # <<>>

\* The length of a text in characters (wide200: 200 two-byte characters).
RuneLen(text) ==
    CASE text = "" -> 0
      [] text = "ascii256" -> 256
      [] text = "ascii257" -> 257
      [] text = "wide200" -> 200
      [] OTHER -> 2

Refused == result.err # "nil"

C17_Admission ==
    pc = "answered" =>
        /\ result.at \in {"create", "update"} =>
              (Refused <=> \/ obj.title = ""
                           \/ RuneLen(obj.description) > MaxDescription
                           \/ ~OfRepoForm(obj.repo))
        /\ (result.at = "update" /\ Refused) => store[cur] = pre
        /\ result.at = "delete" => ~Refused

(* C18. RepoRefParser result: ParseRepoUrl strips the prefix, splits the    *)
(* rest on "/" and returns the first two non-empty segments as owner and   *)
(* repo; it fails when fewer than two non-empty segments remain, so it     *)
(* never returns an empty owner or an empty repo.                          *)
NonEmpty(segment) == segment # <<>>

C18_ParserResult ==
    pc = "parsed" =>
        LET segments == SelectSeq(Split(TrimPrefix(obj.repo, GithubPrefix)), NonEmpty)
            out == calls[1]
        IN  /\ IF Len(segments) < 2 THEN out.err
               ELSE ~out.err /\ out.owner = segments[1] /\ out.repo = segments[2]
            /\ ~out.err => (out.owner # <<>> /\ out.repo # <<>>)

(* C19. Status projection: the status written for a remote issue holds the  *)
(* issue's number and exactly two conditions, whatever was stored before:  *)
(* IssueOpen, true iff the issue's state is open, and HasPR, true iff the  *)
(* issue carries a pull-request link; neither depends on the other.        *)
Projected == pc = "idle" /\ result.at = "project" /\ result.write = "ok"

C19_Projection ==
    Projected =>
        LET st == store[cur].status
        IN  /\ st.issueNumber = issue.number
            /\ Len(st.conditions) = 2
            /\ st.conditions[1].type = "IssueOpen"
            /\ st.conditions[1].status = (IF issue.state = "open" THEN "True" ELSE "False")
            /\ st.conditions[2].type = "HasPR"
            /\ st.conditions[2].status = (IF issue.pr THEN "True" ELSE "False")

C19_Witness ==
    /\ Projected
    /\ issue.state = "closed" /\ issue.pr
    /\ Len(pre.status.conditions) = 3
    /\ pre.status.issueNumber # issue.number
    /\ store[cur].status.conditions[1].status = "False"
    /\ store[cur].status.conditions[2].status = "True"

(* C20. Status writes never perturb spec: the stored repo, title and        *)
(* description of a record change only by an edit of the external actor,   *)
(* never by a step of the controller; an edit committed between a pass's   *)
(* Fetch and its status write is still the stored spec after the pass.     *)
C20_SpecUntouched ==
    [][\A r \in Records :
          SpecOf(store'[r]) # SpecOf(store[r]) => editsLeft' < editsLeft]_vars

C20_Witness ==
    /\ PassEnded
    /\ result.at = "status" /\ result.write = "conflict"
    /\ store[cur].present
    /\ SpecOf(store[cur]) # SpecOf(pre)
    /\ SpecOf(obj) = SpecOf(pre)

(* C21. Idempotent sync (P1): runs of the Sync step in a row for a record   *)
(* whose status holds the number of an existing remote issue create no     *)
(* issue (the repository keeps its size); each run works on the issue the  *)
(* status names, leaves it with the title and body it was given and        *)
(* persists a status that names it still, so that the next run works on    *)
(* the same issue; and a run with the inputs the issue carries already, as *)
(* it does after a run with these inputs, leaves the remote as it was.     *)
Named == obj.status.issueNumber

SyncRuns == pc = "sync" /\ pc' # "idle"

UpdateRuns == pc = "updateIssue" /\ pc' = "status"

StatusPersisted == pc = "status" /\ pc' = "idle" /\ result'.write = "ok"

C21_IdempotentSync ==
    [][/\ Len(issues') = MaxListed
       /\ SyncRuns => (pc' = "updateIssue" /\ issue'.number = Named)
       /\ UpdateRuns =>
            /\ Creates(calls') = {}
            /\ issues'[Named].title = obj.title
            /\ issues'[Named].body = obj.description
            /\ (issues[Named].title = obj.title
                   /\ issues[Named].body = obj.description) => issues' = issues
       /\ StatusPersisted => store'[cur].status.issueNumber = Named]_vars

(* C22. Teardown failure keeps the guard: a teardown pass in which the      *)
(* parse of the repo, the listing, the close or the delete of the record   *)
(* fails returns that error; the record is still in the store with its     *)
(* guard, and the key is queued again.                                     *)
TeardownFailed ==
    /\ PassEnded
    /\ result.at = "teardown"
    /\ result.err \in {"parse", "list", "close", "delete"}

TeardownCallFails ==
    /\ pc \in {"teardown", "closeIssue", "deleteRecord"} /\ pc' # pc
    /\ \/ faultsLeft' < faultsLeft
       \/ pc = "teardown" /\ ParseRepoUrl(obj.repo).err

C22_TeardownFailureKeepsGuard ==
    [][/\ TeardownCallFails => TeardownFailed'
       /\ TeardownFailed' =>
            /\ result'.kind = "returned"
            /\ Retried(result')
            /\ cur' \in queue'
            /\ store'[cur'].present
            /\ store'[cur'].deleting
            /\ Finalizer \in store'[cur'].finalizers]_vars

C22_Witness ==
    /\ TeardownFailed
    /\ result.err = "close"
    /\ calls # <<>> /\ calls[Len(calls)].op = "close"
    /\ store[cur].present
    /\ Finalizer \in store[cur].finalizers

(* C23. Holder absent branch: the step of a normal pass that found no       *)
(* holder creates one with an empty token, whose owner reference names the *)
(* record the pass fetched (by UID), persists tokenRequired = true and     *)
(* returns requeue-now with no error; it makes no remote call and does not *)
(* attach the guard; when the create or the status write fails, the pass   *)
(* returns the error.                                                      *)
HolderCreated == pc = "holder" /\ pc' # "holder"

HolderAsked == pc = "holderStatus" /\ pc' = "idle"

HolderWritesSucceed ==
    /\ faultsLeft' = faultsLeft
    /\ store[cur].present /\ ~stale

C23_HolderAbsent ==
    [][/\ HolderCreated =>
            /\ calls' = <<>> /\ issues' = issues /\ store' = store
            /\ IF faultsLeft' = faultsLeft /\ Held(cur) = NoSecret
               THEN /\ pc' = "holderStatus"
                    /\ secret' = secret \cup
                           {[name |-> cur, owner |-> pre.uid, token |-> ""]}
               ELSE /\ pc' = "idle" /\ secret' = secret
                    /\ result'.kind = "returned"
                    /\ result'.err = "secretCreate"
       /\ HolderAsked =>
            /\ calls' = <<>> /\ issues' = issues /\ secret' = secret
            /\ store'[cur].finalizers = store[cur].finalizers
            /\ result'.kind = "returned"
            /\ IF HolderWritesSucceed
               THEN /\ store'[cur].status.tokenRequired
                    /\ result'.err = "nil"
                    /\ result'.requeue /\ result'.after = 0
               ELSE result'.err = "tokenStatus"]_vars

C23_Witness ==
    /\ PassEnded
    /\ result.at = "holder" /\ result.err = "nil" /\ result.requeue
    /\ pre.present /\ ~pre.status.tokenRequired
    /\ secret = {[name |-> cur, owner |-> store[cur].uid, token |-> ""]}
    /\ store[cur].present /\ store[cur].status.tokenRequired
    /\ Finalizer \notin store[cur].finalizers
    /\ calls = <<>>

(* C24. Holder empty branch: the step of a normal pass that reads an empty  *)
(* token ends the pass with no remote call and no client built; it         *)
(* persists tokenRequired = true and returns retry-after 60 s with no      *)
(* error, on every pass that finds the token empty, and the key is queued  *)
(* again; when the read or the status write fails, the error is returned.  *)
EmptyHolderRead == pc = "token" /\ pc' # pc /\ Held(cur) = ""

EmptyHolderPass == pc = "tokenStatus" /\ pc' # pc /\ token = ""

TokenWritesSucceed ==
    /\ faultsLeft' = faultsLeft
    /\ store[cur].present /\ ~stale

C24_HolderEmpty ==
    [][/\ EmptyHolderRead =>
            /\ calls' = <<>> /\ issues' = issues /\ client' = client
            /\ store' = store
            /\ IF faultsLeft' = faultsLeft
               THEN pc' = "tokenStatus" /\ token' = ""
               ELSE /\ pc' = "idle" /\ result'.kind = "returned"
                    /\ result'.err = "secretGet"
       /\ EmptyHolderPass =>
            /\ pc' = "idle"
            /\ calls' = <<>> /\ issues' = issues /\ client' = client
            /\ result'.kind = "returned"
            /\ cur \in queue'
            /\ IF TokenWritesSucceed
               THEN /\ store'[cur].status.tokenRequired
                    /\ result'.err = "nil"
                    /\ ~result'.requeue /\ result'.after = TokenDelay
               ELSE result'.err = "tokenStatus"]_vars

C24_Witness ==
    /\ PassEnded
    /\ result.at = "token" /\ result.err = "nil" /\ result.after = TokenDelay
    /\ pre.present /\ pre.status.tokenRequired
    /\ Held(cur) = ""
    /\ store[cur].status.tokenRequired
    /\ cur \in queue
    /\ calls = <<>>

(* C25. Token pick-up: a record in the token wait state whose holder has   *)
(* been given a non-empty token is, without any change to the record,      *)
(* taken up by a later pass that persists tokenRequired = false and        *)
(* reaches Sync with a client built from that token (unless deletion is    *)
(* asked for, or the token is taken away again, first).                    *)
TokenWait(r) ==
    /\ store[r].present /\ ~store[r].deleting
    /\ store[r].status.tokenRequired
    /\ Held(r) \in Tokens

PickedUp(r) ==
    /\ pc = "sync" /\ cur = r
    /\ client = Held(r)
    /\ ~store[r].status.tokenRequired

C25_TokenPickUp ==
    \A r \in Records :
        TokenWait(r) ~> \/ PickedUp(r)
                        \/ store[r].deleting \/ ~store[r].present
                        \/ Held(r) \notin Tokens

C25_Witness ==
    /\ PickedUp(cur)
    /\ pre.status.tokenRequired
    /\ Held(cur) \in Tokens
    /\ store[cur].present /\ ~store[cur].deleting

(* C26. Guard before token: a record that has been through a successful    *)
(* normal pass, the passes that ended in the holder-absent or the          *)
(* holder-empty branch included, carries the finalization guard.           *)
WaitBranchPass ==
    /\ PassEnded
    /\ result.at \in {"holder", "token"}
    /\ result.kind = "returned" /\ result.err = "nil"
    /\ pre.present /\ ~pre.deleting

C26_GuardBeforeToken ==
    (WaitBranchPass /\ store[cur].present) => Finalizer \in store[cur].finalizers

(* C27. Client per pass and per record: the remote calls of a teardown     *)
(* pass are made with a client built from the token the record's holder    *)
(* carries when that pass makes them, never with a client an earlier pass  *)
(* built.  (A normal pass builds its client at line 118 before its calls.) *)
TeardownCalls ==
    /\ pc \in {"teardown", "closeIssue"}
    /\ Len(calls') > Len(calls)

C27_ClientPerPass ==
    [][TeardownCalls => calls'[Len(calls')].client = Held(cur)]_vars

(* C28. No pass crashes the worker: every pass ends by returning an        *)
(* outcome; a teardown pass that runs before any pass has built a client   *)
(* returns one too.                                                        *)
C28_NoCrash == PassEnded => result.kind = "returned"

(* C29. EnsureGuard failure: when the guard is missing and the write that  *)
(* attaches it fails, the pass ends at that step with the error and an     *)
(* immediate-retry directive; the pass makes no remote call and writes no  *)
(* status, and the key is queued again.                                    *)
GuardWriteFails ==
    /\ pc = "guard" /\ pc' # pc
    /\ Finalizer \notin obj.finalizers
    /\ faultsLeft' < faultsLeft \/ stale \/ ~store[cur].present

C29_GuardFailure ==
    [][GuardWriteFails =>
          /\ pc' = "idle"
          /\ result'.kind = "returned"
          /\ result'.err = "ensureFinalizer" /\ result'.requeue
          /\ cur \in queue'
          /\ calls' = <<>> /\ issues' = issues
          /\ store' = store]_vars

C29_Witness ==
    /\ PassEnded
    /\ result.at = "guard" /\ result.err = "ensureFinalizer" /\ result.requeue
    /\ pre.present /\ ~pre.deleting
    /\ store[cur].present /\ Finalizer \notin store[cur].finalizers
    /\ store[cur].status.conditions = pre.status.conditions
    /\ store[cur].status.issueNumber = pre.status.issueNumber
    /\ calls = <<>>
    /\ cur \in queue

(* C30. Remote failure in Sync: when the list, create or update call of a  *)
(* normal pass fails, the pass ends with that error and no retry directive *)
(* of its own (the scheduler queues the key again), the remote and the     *)
(* store are left as they were, and the persisted conditions, issue number *)
(* and lastUpdated are those the record had when the pass fetched it.      *)
SyncCallFails ==
    /\ pc \in {"sync", "createIssue", "updateIssue"}
    /\ faultsLeft' < faultsLeft

ProjectedPart(st) ==
    [conditions |-> st.conditions, issueNumber |-> st.issueNumber,
     lastUpdated |-> st.lastUpdated]

C30_SyncFailure ==
    [][SyncCallFails =>
          /\ pc' = "idle"
          /\ result'.kind = "returned"
          /\ result'.err \in {"list", "create", "update"}
          /\ calls'[Len(calls')].op = result'.err
          /\ ~result'.requeue /\ result'.after = 0
          /\ cur \in queue'
          /\ issues' = issues
          /\ store' = store
          /\ ProjectedPart(store'[cur].status) = ProjectedPart(pre.status)]_vars

C30_Witness ==
    /\ PassEnded
    /\ result.at = "sync" /\ result.err \in {"create", "update"}
    /\ pre.status.issueNumber # 0 /\ pre.status.conditions # <<>>
    /\ store[cur].present
    /\ ProjectedPart(store[cur].status) = ProjectedPart(pre.status)
    /\ cur \in queue

(* C31. Deletion branch is exclusive: a pass whose fetched record is       *)
(* marked for deletion runs the teardown steps and nothing else; its       *)
(* remote calls are the list and the close, it creates no holder, adds no  *)
(* finalizer and writes no status.                                         *)
TeardownSteps == {"teardown", "closeIssue", "deleteRecord", "unguard"}

DeletionPassStep == pc # "idle" /\ pc' # pc /\ pre.deleting

C31_DeletionExclusive ==
    [][DeletionPassStep =>
          /\ pc \in TeardownSteps /\ pc' \in TeardownSteps \cup {"idle"}
          /\ \A k \in DOMAIN calls' : calls'[k].op \in {"list", "close"}
          /\ secret' = secret
          /\ store'[cur].finalizers \subseteq store[cur].finalizers
          /\ store'[cur].status = store[cur].status]_vars

C31_Witness ==
    /\ PassEnded
    /\ result.at = "teardown" /\ result.err = "nil"
    /\ pre.deleting /\ pre.status.issueNumber # 0
    /\ \E k \in DOMAIN calls : calls[k].op = "close"
    /\ store[cur].status = pre.status

(* C32. Close only when open: a teardown pass whose list call succeeded    *)
(* makes a close call exactly when the issue found is open, and closes     *)
(* that issue; when no issue is found or the one found is closed, it makes *)
(* no close call, and with the store available the record is erased and    *)
(* the pass returns no error.                                              *)
TeardownListed ==
    /\ pc = "teardown" /\ pc' \in {"closeIssue", "deleteRecord"}

Found == FoundIssue(issues, obj.title, obj.status.issueNumber)

FoundOpen == Found # NilIssue /\ Found.state = "open"

CloseCalls(log) == { k \in DOMAIN log : log[k].op = "close" }

NothingToClose == pc # "idle" /\ pre.deleting /\ CloseCalls(calls) = {}

C32_CloseOnlyWhenOpen ==
    [][/\ TeardownListed =>
            /\ pc' = "closeIssue" <=> FoundOpen
            /\ issue' = Found
            /\ CloseCalls(calls') = {}
       /\ (pc = "closeIssue" /\ pc' # pc) =>
            /\ CloseCalls(calls') = {Len(calls')}
            /\ calls'[Len(calls')].number = issue.number
            /\ pc' = "deleteRecord" => issues' = CloseIssue(issues, issue.number)
       /\ (pc \in {"deleteRecord", "unguard"} /\ pc' # pc)
              => CloseCalls(calls') = CloseCalls(calls)
       /\ (NothingToClose /\ pc' # pc /\ faultsLeft' = faultsLeft /\ ~stale) =>
            /\ pc = "deleteRecord" => (pc' = "unguard" /\ issues' = issues)
            /\ pc = "unguard" =>
                  /\ pc' = "idle" /\ issues' = issues
                  /\ result'.err = "nil" /\ result'.kind = "returned"
                  /\ Erased(cur)']_vars

C32_Witness ==
    /\ PassEnded
    /\ result.at = "teardown" /\ result.err = "nil"
    /\ issue = NilIssue
    /\ HasIssue(pre.status.issueNumber)
    /\ IssueByNumber(pre.status.issueNumber).state = "closed"
    /\ Len(calls) = 1 /\ calls[1].op = "list"
    /\ Erased(cur)

(* C33. Eventual convergence: with the remote and the store available and  *)
(* finitely many edits, a record that is not being deleted and whose       *)
(* holder carries a token reaches and stays in a state where one remote    *)
(* issue is the record's: the issue its                                    *)
(* status names carries the record's title and description, and no other   *)
(* issue was made for the record.                                          *)
Bound(r) ==
    /\ HasIssue(store[r].status.issueNumber)
    /\ IssueByNumber(store[r].status.issueNumber).title = store[r].title
    /\ IssueByNumber(store[r].status.issueNumber).body = store[r].description

Converged(r) ==
    /\ Bound(r)
    /\ CreatedFor(r) \subseteq {store[r].status.issueNumber}

Live(r) == store[r].present /\ ~store[r].deleting /\ Held(r) \in Tokens

C33_Convergence ==
    \A r \in Records : <>[](Live(r) => Converged(r))

\* The binding alone does settle: what fails above is the single issue.
BindingSettles ==
    \A r \in Records : <>[](Live(r) => Bound(r))

(* C34. Records do not share or disturb each other's remote issue: two     *)
(* records of the same repository are bound to different remote issues,    *)
(* and the teardown of one closes no issue the other is bound to.          *)
BoundTo(r) == store[r].status.issueNumber

Tracking(r) == store[r].present /\ BoundTo(r) # 0

C34_DistinctIssues ==
    \A r \in Records : \A q \in Records \ {r} :
        (Tracking(r) /\ Tracking(q)) => BoundTo(r) # BoundTo(q)

\* The second half on its own: no teardown closes another record's issue.
TeardownSparesOthers ==
    [][pc = "closeIssue" =>
          \A k \in CloseCalls(calls') : \A q \in Records \ {cur} :
              Tracking(q) => calls'[k].number # BoundTo(q)]_vars

(* C35. Deletion always completes: with the remote and the store           *)
(* available, every record marked for deletion is in the end erased from   *)
(* the store, whatever its repo string and whether or not an issue was     *)
(* ever made for it.                                                       *)
Marked(r) == store[r].present /\ store[r].deleting

C35_DeletionCompletes ==
    \A r \in Records : Marked(r) ~> ~store[r].present

\* What does hold: a marked record whose repo parses is erased.
ParseableDeletionCompletes ==
    \A r \in Records :
        (Marked(r) /\ ~ParseRepoUrl(store[r].repo).err) ~> ~store[r].present

(* C36. Validation implies parseable: for a repo string the webhook        *)
(* accepted, ParseRepoUrl returns no error and a non-empty owner and repo, *)
(* which are the two segments of the URL's path.                           *)
PathSegments(repoUrl) == Split(UrlParse(repoUrl).path)

C36_ValidationImpliesParseable ==
    pc = "resolved" =>
        LET out == calls[1]
            segments == PathSegments(store[cur].repo)
        IN  /\ ~out.err
            /\ out.owner # <<>> /\ out.repo # <<>>
            /\ out.owner = segments[2] /\ out.repo = segments[3]

\* What does hold: the plain form https://github.com/{owner}/{repo} parses
\* into its two segments.
PlainFormParseable ==
    pc = "resolved" =>
        LET out == calls[1]
            segments == PathSegments(store[cur].repo)
            plain == GithubPrefix \o segments[2] \o <<"/">> \o segments[3]
        IN  store[cur].repo = plain =>
                /\ ~out.err
                /\ out.owner = segments[2] /\ out.repo = segments[3]

============================================================================
